---- MODULE Spec2Model ----
(***************************************************************************)
(* Verification model of the efficient-attention modules of sabertooth:    *)
(*   efficient_attention/Performer/performer_mha.py   (MHA, feature map)   *)
(*   efficient_attention/SONIC/sonic_lin_rfa_mha.py   (MHA, hybrid)        *)
(*   efficient_attention/RFA/RFA_random_matrices/utils.py (basis sampling) *)
(*                                                                         *)
(* Tensors are records [shape, data]; data maps an index tuple to an       *)
(* integer.  Real numbers are fixed-point integers; a quotient is kept as  *)
(* the exact pair (numerator, denominator) instead of being rounded.       *)
(* The dense projections, dropout and random_project are collaborators     *)
(* outside these files: what they return is an input of the call.          *)
(***************************************************************************)
EXTENDS Integers, Sequences, FiniteSets, TLC

VARIABLES
    cfg,              \* the module's configuration fields (dataclass attributes)
    random_matrices,  \* the loaded basis bank: row i (0-based) is random_matrices[i+1]
    np_random,        \* state of numpy's process-global generator (np.random)
    call,             \* the arguments of the last call
    ret               \* what the last call returned, or the error it raised

vars == <<cfg, random_matrices, np_random, call, ret>>

(***************************************************************************)
(* Bounds of the model.                                                    *)
(***************************************************************************)
MaxEntries == 10      \* the projected queries, keys and values of a call have at most
                      \* this many entries together

\* values a dense projection may produce (units of 1e-3): one below zero, one above
ProjVals == {-1, 2}
\* numerical_stabilizer values (units of 1e-3): the default 0.001, and a larger one
StabilizerVals == {1, 3}

MaxHeads == 2         \* num_heads ranges over 1..MaxHeads
MaxLayers == 2        \* num_layers ranges over 1..MaxLayers
MaxDownK == 2         \* downsampling_k ranges over 1..MaxDownK
MaxBank == 3          \* the basis bank holds 1..MaxBank matrices
MaxQueryLen == 2      \* the query sequence has 1..MaxQueryLen positions
MaxPhiEntries == 6    \* phi_q and phi_k have at most this many entries together

\* states of the abstracted numpy generator
RngStates == 0..3
\* key / value sequence lengths offered to the hybrid forward
SeqLens == {128, 256, 512}
\* values random_project may produce: zero, small, and large of either sign
PhiVals == {-200000, 0, 1, 200000}

NoCall == [op |-> "none"]
NoRet  == [kind |-> "none"]

(***************************************************************************)
(* Tensor helpers.                                                         *)
(***************************************************************************)
RECURSIVE Sum(_, _)
\* sum of f[1] .. f[n]: the reduction over one einsum index
Sum(f, n) == IF n = 0 THEN 0 ELSE f[n] + Sum(f, n - 1)

Idx3(shape) == (1..shape[1]) \X (1..shape[2]) \X (1..shape[3])
Idx4(shape) == (1..shape[1]) \X (1..shape[2]) \X (1..shape[3]) \X (1..shape[4])

\* shapes of one call: queries [batch, q_len, heads, dim], keys and values
\* [batch, kv_len, heads, dim], within the entry budget
CallShapes ==
    {s \in [batch : 1..MaxEntries, heads : 1..MaxEntries, dim : 1..MaxEntries,
            q_len : 1..MaxEntries, kv_len : 1..MaxEntries] :
        s.batch * s.heads * s.dim * (s.q_len + 2 * s.kv_len) <= MaxEntries}

Tensors4(shape, vals) == {[shape |-> shape, data |-> d] : d \in [Idx4(shape) -> vals]}

(***************************************************************************)
(* Performer MHA (performer_mha.py).                                       *)
(***************************************************************************)
relu(x) == IF x > 0 THEN x ELSE 0

\* mutant: the feature map without the stabilizer
relu_feature_unshifted(t, stabilizer) ==
    [shape |-> t.shape, data |-> [i \in Idx4(t.shape) |-> relu(t.data[i])]]

\* nn.relu(t) + self.numerical_stabilizer, elementwise
shifted_relu_feature(t, stabilizer) ==
    [shape |-> t.shape,
     data  |-> [i \in Idx4(t.shape) |-> relu(t.data[i]) + stabilizer]]

\* jnp.transpose(t, [1, 0, 2, 3])
transpose_1023(t) ==
    LET s == <<t.shape[2], t.shape[1], t.shape[3], t.shape[4]>>
    IN  [shape |-> s,
         data  |-> [i \in Idx4(s) |-> t.data[<<i[2], i[1], i[3], i[4]>>]]]

\* jnp.transpose(t, [1, 0, 2])
transpose_102(t) ==
    LET s == <<t.shape[2], t.shape[1], t.shape[3]>>
    IN  [shape |-> s,
         data  |-> [i \in Idx3(s) |-> t.data[<<i[2], i[1], i[3]>>]]]

\* mutant: the values contracted on the key feature index ("lbhm,lbhm->bhmd")
einsum_lbhm_lbhm_bhmd(keys, values) ==
    LET s == <<keys.shape[2], keys.shape[3], keys.shape[4], values.shape[4]>>
    IN  [shape |-> s,
         data  |-> [i \in Idx4(s) |->
                     Sum([l \in 1..keys.shape[1] |->
                            keys.data[<<l, i[1], i[2], i[3]>>]
                              * values.data[<<l, i[1], i[2], i[3]>>]],
                         keys.shape[1])]]

\* jnp.einsum("lbhm,lbhd->bhmd", keys, values)
einsum_lbhm_lbhd_bhmd(keys, values) ==
    LET s == <<keys.shape[2], keys.shape[3], keys.shape[4], values.shape[4]>>
    IN  [shape |-> s,
         data  |-> [i \in Idx4(s) |->
                     Sum([l \in 1..keys.shape[1] |->
                            keys.data[<<l, i[1], i[2], i[3]>>]
                              * values.data[<<l, i[1], i[2], i[4]>>]],
                         keys.shape[1])]]

\* jnp.einsum("lbhm,bhmd->lbhd", queries, kvs)
einsum_lbhm_bhmd_lbhd(queries, kvs) ==
    LET s == <<queries.shape[1], queries.shape[2], queries.shape[3], kvs.shape[4]>>
    IN  [shape |-> s,
         data  |-> [i \in Idx4(s) |->
                     Sum([m \in 1..queries.shape[4] |->
                            queries.data[<<i[1], i[2], i[3], m>>]
                              * kvs.data[<<i[2], i[3], m, i[4]>>]],
                         queries.shape[4])]]

\* jnp.einsum("lbhm->bhm", keys)
einsum_lbhm_bhm(keys) ==
    LET s == <<keys.shape[2], keys.shape[3], keys.shape[4]>>
    IN  [shape |-> s,
         data  |-> [i \in Idx3(s) |->
                     Sum([l \in 1..keys.shape[1] |-> keys.data[<<l, i[1], i[2], i[3]>>]],
                         keys.shape[1])]]

\* jnp.einsum("lbhm,bhm->lbh", queries, ks_sum)
einsum_lbhm_bhm_lbh(queries, ks_sum) ==
    LET s == <<queries.shape[1], queries.shape[2], queries.shape[3]>>
    IN  [shape |-> s,
         data  |-> [i \in Idx3(s) |->
                     Sum([m \in 1..queries.shape[4] |->
                            queries.data[<<i[1], i[2], i[3], m>>]
                              * ks_sum.data[<<i[2], i[3], m>>]],
                         queries.shape[4])]]

\* a_v / expand_dims(normalizer, -1): each entry kept as the exact quotient num/den
divide_by_normalizer(a_v, normalizer) ==
    [shape |-> a_v.shape,
     data  |-> [i \in Idx4(a_v.shape) |->
                 [num |-> a_v.data[i], den |-> normalizer.data[<<i[1], i[2], i[3]>>]]]]

\* the non-causal branch of MHA.__call__ on the feature-mapped, transposed tensors
non_causal_attention(queries, keys, values) ==
    LET kvs        == einsum_lbhm_lbhd_bhmd(keys, values)
        a_v        == einsum_lbhm_bhmd_lbhd(queries, kvs)
        ks_sum     == einsum_lbhm_bhm(keys)
        normalizer == einsum_lbhm_bhm_lbh(queries, ks_sum)
    IN  divide_by_normalizer(transpose_1023(a_v), transpose_102(normalizer))

\* arguments of a Performer call: the three projected tensors [batch, length, heads, dim]
PerformerInputs ==
    UNION {[queries : Tensors4(<<s.batch, s.q_len, s.heads, s.dim>>, ProjVals),
            keys    : Tensors4(<<s.batch, s.kv_len, s.heads, s.dim>>, ProjVals),
            values  : Tensors4(<<s.batch, s.kv_len, s.heads, s.dim>>, ProjVals)] :
           s \in CallShapes}

\* mutant: the causal flag ignored, the non-causal result returned
Performer_call_ignoring_mask(x) ==
    LET queries == transpose_1023(shifted_relu_feature(x.queries, cfg.numerical_stabilizer))
        keys    == transpose_1023(shifted_relu_feature(x.keys, cfg.numerical_stabilizer))
        values  == transpose_1023(x.values)
    IN  /\ call' = [op |-> "performer", x |-> x]
        /\ ret' = [kind |-> "ok", a_v |-> non_causal_attention(queries, keys, values)]
        /\ UNCHANGED <<cfg, random_matrices, np_random>>

\* MHA.__call__ of performer_mha.py, after the dense projections.  The module keeps
\* nothing between calls, so a behaviour is one call on the constructed module.
Performer_call(x) ==
    LET queries == transpose_1023(shifted_relu_feature(x.queries, cfg.numerical_stabilizer))
        keys    == transpose_1023(shifted_relu_feature(x.keys, cfg.numerical_stabilizer))
        values  == transpose_1023(x.values)
    IN  /\ call' = [op |-> "performer", x |-> x]
        /\ ret' = IF cfg.mask
                  THEN [kind |-> "error",
                        msg |-> "We have not implemented the Causal Attention Mechanism!"]
                  ELSE [kind |-> "ok", a_v |-> non_causal_attention(queries, keys, values)]
        /\ UNCHANGED <<cfg, random_matrices, np_random>>

(***************************************************************************)
(* Wide integers <<hi, lo>> = hi * 10^6 + lo with 0 <= lo < 10^6: the      *)
(* random-feature denominators range past 10e9, beyond a machine integer.  *)
(***************************************************************************)
WNorm(hi, lo) == <<hi + (lo \div 1000000), lo % 1000000>>
W(n) == WNorm(0, n)
WAdd(x, y) == WNorm(x[1] + y[1], x[2] + y[2])
WNeg(x) == WNorm(-x[1], -x[2])
WLess(x, y) == x[1] < y[1] \/ (x[1] = y[1] /\ x[2] < y[2])
\* a * b for |a|, |b| < 10^6, by splitting both factors at 10^3
WMul(a, b) ==
    LET a1 == a \div 1000  a0 == a % 1000
        b1 == b \div 1000  b0 == b % 1000
        mid == a1 * b0 + a0 * b1
    IN  WNorm(a1 * b1 + (mid \div 1000), (mid % 1000) * 1000 + a0 * b0)

RECURSIVE WSum(_, _)
\* sum of the wide numbers f[1] .. f[n]
WSum(f, n) == IF n = 0 THEN W(0) ELSE WAdd(f[n], WSum(f, n - 1))

(***************************************************************************)
(* numpy's global generator, abstracted to a finite-state generator: the   *)
(* draws are a function of the state, and every draw advances it.          *)
(***************************************************************************)
rk_next(state) == (5 * state + 3) % 4
\* rk_interval(max, state): a number in 0..max and the advanced state
rk_interval(max, state) == [val |-> rk_next(state) % (max + 1), state |-> rk_next(state)]

RECURSIVE shuffle(_, _, _)
\* RandomState.shuffle: for i in reversed(range(1, n)): j = rk_interval(i); swap x[i], x[j]
\* (arr is 1-based here: position i of numpy is arr[i + 1])
shuffle(arr, i, state) ==
    IF i < 1 THEN [arr |-> arr, state |-> state]
    ELSE LET r == rk_interval(i, state)
             swapped == [arr EXCEPT ![i + 1] = arr[r.val + 1], ![r.val + 1] = arr[i + 1]]
         IN  shuffle(swapped, i - 1, r.state)

\* np.random.choice(pop_size, size=size, replace=False) on generator state `state`
np_random_choice(pop_size, size, state) ==
    IF size > pop_size
    THEN [kind |-> "error",
          msg |-> "ValueError: Cannot take a larger sample than population when 'replace=False'"]
    ELSE LET p == shuffle([i \in 1..pop_size |-> i - 1], pop_size - 1, state)
         IN  [kind |-> "ok", indices |-> SubSeq(p.arr, 1, size), state |-> p.state]

\* random_matrices[indices]: the rows of the bank at the (0-based) indices
take_rows(bank, indices) == [j \in 1..Len(indices) |-> bank[indices[j] + 1]]

(***************************************************************************)
(* SONIC MHA (sonic_lin_rfa_mha.py).                                       *)
(***************************************************************************)
EPS == 1
\* 10e9 as a wide integer
CLAMP_HIGH == <<10000, 0>>
\* the fill value -9e15 of a masked-out score
NEG_FILL == "-9e15"

\* shapes of the parameters created in setup()
key_downsampling_mat_128 == <<cfg.downsampling_k, 128>>
key_downsampling_mat_512 == <<cfg.downsampling_k, 512>>
value_downsampling_mat_128 == <<cfg.downsampling_k, 128>>
value_downsampling_mat_512 == <<cfg.downsampling_k, 512>>

\* shape of jnp.einsum('ks, bsd -> bkd', mat, t); the s axes must agree
einsum_ks_bsd_bkd(mat, t) ==
    IF mat[2] = t[2] THEN <<t[1], mat[1], t[3]>> ELSE <<"shape error">>

\* mutant: every length other than 128 handed to the 512 matrices
downsample_lenient(key, value) ==
    IF value[2] = key[2] /\ key[2] = 128
    THEN [kind |-> "ok", mat |-> 128,
          key |-> einsum_ks_bsd_bkd(key_downsampling_mat_128, key),
          value |-> einsum_ks_bsd_bkd(value_downsampling_mat_128, value)]
    ELSE [kind |-> "ok", mat |-> 512,
          key |-> <<key[1], key_downsampling_mat_512[1], key[3]>>,
          value |-> <<value[1], value_downsampling_mat_512[1], value[3]>>]

\* the if / elif / else on the key and value lengths at the head of MHA.__call__
downsample(key, value) ==
    IF value[2] = key[2] /\ key[2] = 128
    THEN [kind |-> "ok", mat |-> 128,
          key |-> einsum_ks_bsd_bkd(key_downsampling_mat_128, key),
          value |-> einsum_ks_bsd_bkd(value_downsampling_mat_128, value)]
    ELSE IF value[2] = key[2] /\ key[2] = 512
    THEN [kind |-> "ok", mat |-> 512,
          key |-> einsum_ks_bsd_bkd(key_downsampling_mat_512, key),
          value |-> einsum_ks_bsd_bkd(value_downsampling_mat_512, value)]
    ELSE [kind |-> "error", msg |-> "Input sequence length must be of size 128 or 512."]

\* mutant: the strict lower triangle (jnp.tril(..., k=-1))
tril_strict(q, k) == k < q

\* jnp.tril(jnp.ones(...)) at (row q, column k), both 0-based: the lower triangle
tril(q, k) == k <= q

\* jnp.where(trilled_mask == False, -9e15, q_ks) for q_len queries and k_len keys,
\* the mask sliced to its first downsampling_k columns; a kept score is named, not valued
masked_scores(q_len, k_len) ==
    LET cols == IF k_len < cfg.downsampling_k THEN k_len ELSE cfg.downsampling_k
    IN  [q \in 0..(q_len - 1) |->
           [k \in 0..(cols - 1) |-> IF tril(q, k) = FALSE THEN NEG_FILL ELSE "q_ks"]]

\* MHA.sample_random_matrices: a draw of num_heads rows from the global generator
sonic_sample_random_matrices ==
    LET num_random_matrices == Len(random_matrices)
    IN  np_random_choice(num_random_matrices, cfg.num_heads, np_random)

WAbs(x) == IF WLess(x, W(0)) THEN WNeg(x) ELSE x

\* jax.lax.clamp(lo, x, hi)
clamp(lo, x, hi) == IF WLess(x, lo) THEN lo ELSE IF WLess(hi, x) THEN hi ELSE x

\* jnp.einsum("bqnd, bnd -> bqn", phi_q, z) with z = jnp.sum(phi_k, axis=1)
einsum_bqnd_bnd_bqn(phi_q, phi_k) ==
    LET z(b, n, d) == Sum([k \in 1..phi_k.shape[2] |-> phi_k.data[<<b, k, n, d>>]],
                          phi_k.shape[2])
        s == <<phi_q.shape[1], phi_q.shape[2], phi_q.shape[3]>>
    IN  [shape |-> s,
         data  |-> [i \in Idx3(s) |->
                     WSum([d \in 1..phi_q.shape[4] |->
                             WMul(phi_q.data[<<i[1], i[2], i[3], d>>], z(i[1], i[3], d))],
                          phi_q.shape[4])]]

\* mutant: the clamp applied to the signed inner product
denominator_no_abs(phi_q, phi_k) ==
    LET qz == einsum_bqnd_bnd_bqn(phi_q, phi_k)
    IN  [shape |-> qz.shape,
         data  |-> [i \in Idx3(qz.shape) |-> clamp(W(EPS), qz.data[i], CLAMP_HIGH)]]

\* qz = jax.lax.clamp(EPS, jnp.abs(einsum(phi_q, z)), 10e9)
denominator(phi_q, phi_k) ==
    LET qz == einsum_bqnd_bnd_bqn(phi_q, phi_k)
    IN  [shape |-> qz.shape,
         data  |-> [i \in Idx3(qz.shape) |-> clamp(W(EPS), WAbs(qz.data[i]), CLAMP_HIGH)]]

\* MHA.__call__ of sonic_lin_rfa_mha.py.  x.query, x.key, x.value are the shapes of the
\* three inputs; x.phi_q and x.phi_k are what random_project returns for this call.
SONIC_call(x) ==
    LET ds == downsample(x.key, x.value)
        draw == sonic_sample_random_matrices
    IN  /\ call' = [op |-> "sonic", x |-> x]
        /\ UNCHANGED <<cfg, random_matrices>>
        /\ IF \E t \in {x.query, x.key, x.value} : Len(t) # 3
           THEN /\ ret' = [kind |-> "error", steps |-> <<>>,
                           msg |-> "Incorrect size of input, should be [batch, seq length, hidden dimension]"]
                /\ UNCHANGED np_random
           ELSE IF ds.kind = "error"
           THEN /\ ret' = [kind |-> "error", steps |-> <<>>, msg |-> ds.msg]
                /\ UNCHANGED np_random
           ELSE IF cfg.mask
           THEN /\ ret' = [kind |-> "ok", branch |-> "causal",
                           steps |-> <<"downsample", "project", "softmax">>,
                           mat |-> ds.mat, key |-> ds.key, value |-> ds.value,
                           q_ks |-> masked_scores(x.query[2], ds.key[2])]
                /\ UNCHANGED np_random
           ELSE IF draw.kind = "error"
           THEN /\ ret' = [kind |-> "error", steps |-> <<"downsample", "project", "sample">>,
                           msg |-> draw.msg]
                /\ UNCHANGED np_random
           ELSE /\ ret' = [kind |-> "ok", branch |-> "rfa",
                           steps |-> <<"downsample", "project", "sample", "random_project">>,
                           mat |-> ds.mat, key |-> ds.key, value |-> ds.value,
                           indices |-> draw.indices,
                           random_matrices |-> take_rows(random_matrices, draw.indices),
                           qz |-> denominator(x.phi_q, x.phi_k)]
                /\ np_random' = draw.state

(***************************************************************************)
(* sample_random_matrices of RFA_random_matrices/utils.py.                 *)
(***************************************************************************)
\* jnp.random.choice(...): jnp is jax.numpy, which has no attribute `random`, so the
\* attribute lookup raises before anything is drawn
jnp_random_choice(pop_size, size) ==
    [kind |-> "error", msg |-> "AttributeError: module 'jax.numpy' has no attribute 'random'"]

\* sample_random_matrices(num_layers=, num_heads=, random_matrices=, is_training=)
utils_sample_random_matrices(num_layers, num_heads, bank, is_training) ==
    IF is_training
    THEN LET num_random_matrices == Len(bank)
             draw == jnp_random_choice(num_random_matrices, num_layers * num_heads)
         IN  IF draw.kind = "error" THEN draw
             ELSE LET rows == take_rows(bank, draw.indices)
                  IN  [kind |-> "ok", indices |-> draw.indices,
                       sampled |-> [i \in 1..num_layers |->
                                      SubSeq(rows, (i - 1) * num_heads + 1, i * num_heads)]]
    ELSE LET indices == [j \in 1..num_heads |-> j - 1]
         IN  IF num_heads > Len(bank)
             THEN [kind |-> "error", msg |-> "IndexError: index out of range"]
             ELSE [kind |-> "ok", indices |-> indices, sampled |-> take_rows(bank, indices)]

\* one call of the utils sampler on the loaded bank
Utils_call(num_layers, num_heads, is_training) ==
    /\ call' = [op |-> "utils", num_layers |-> num_layers, num_heads |-> num_heads,
                is_training |-> is_training]
    /\ ret' = utils_sample_random_matrices(num_layers, num_heads, random_matrices, is_training)
    /\ UNCHANGED <<cfg, random_matrices, np_random>>

\* a constructed Performer MHA: mask and numerical_stabilizer are its fields
InitPerformer ==
    /\ cfg \in [mask : BOOLEAN, numerical_stabilizer : StabilizerVals]
    /\ random_matrices = <<>>
    /\ np_random = 0
    /\ call = NoCall
    /\ ret = NoRet

NextPerformer ==
    /\ call = NoCall
    /\ \E x \in PerformerInputs : Performer_call(x)

SpecPerformer == InitPerformer /\ [][NextPerformer]_vars

\* a bank of n matrices; matrix i (0-based) is labelled i
Bank(n) == [i \in 1..n |-> i - 1]

\* a tensor of the given shape filled with v
Full4(shape, v) == [shape |-> shape, data |-> [i \in Idx4(shape) |-> v]]

\* a constructed SONIC MHA with its bank loaded; numpy's generator in any state
InitSonic ==
    /\ cfg \in [mask : BOOLEAN, num_heads : 1..MaxHeads, downsampling_k : 1..MaxDownK]
    /\ random_matrices \in {Bank(n) : n \in 1..MaxBank}
    /\ np_random \in RngStates
    /\ call = NoCall
    /\ ret = NoRet

\* arguments of a hybrid forward: every offered length for key and value, a key of
\* rank 2, and random features that are all one
SonicInputs ==
    {[query |-> <<1, q, 1>>, key |-> k, value |-> <<1, v, 1>>, train |-> t,
      phi_q |-> Full4(<<1, q, cfg.num_heads, 1>>, 1),
      phi_k |-> Full4(<<1, cfg.downsampling_k, cfg.num_heads, 1>>, 1)] :
        q \in 1..MaxQueryLen, k \in {<<1, n, 1>> : n \in SeqLens} \cup {<<1, 128>>},
        v \in SeqLens, t \in BOOLEAN}

\* successive forward calls and sampler calls in one process
NextSonic ==
    \/ \E x \in SonicInputs : SONIC_call(x)
    \/ \E l \in 1..MaxLayers, h \in 1..MaxHeads, t \in BOOLEAN : Utils_call(l, h, t)

SpecSonic == InitSonic /\ [][NextSonic]_vars

\* a non-causal SONIC MHA whose bank covers every head
InitSonicRF ==
    /\ cfg \in [mask : {FALSE}, num_heads : 1..MaxHeads, downsampling_k : 1..MaxDownK]
    /\ random_matrices = Bank(MaxHeads + 1)
    /\ np_random = 0
    /\ call = NoCall
    /\ ret = NoRet

\* arguments of a non-causal forward on a supported length: the random features
\* range over PhiVals, within the entry budget
SonicRFInputs ==
    UNION {[query : {<<1, q, 1>>}, key : {<<1, 128, 1>>}, value : {<<1, 128, 1>>},
            train : {TRUE},
            phi_q : Tensors4(<<1, q, cfg.num_heads, d>>, PhiVals),
            phi_k : Tensors4(<<1, cfg.downsampling_k, cfg.num_heads, d>>, PhiVals)] :
           <<q, d>> \in {qd \in (1..MaxQueryLen) \X (1..MaxPhiEntries) :
                          cfg.num_heads * qd[2] * (qd[1] + cfg.downsampling_k)
                            <= MaxPhiEntries}}

NextSonicRF ==
    /\ call = NoCall
    /\ \E x \in SonicRFInputs : SONIC_call(x)

SpecSonicRF == InitSonicRF /\ [][NextSonicRF]_vars

(***************************************************************************)
(* Properties of the Performer MHA, checked under SpecPerformer.           *)
(***************************************************************************)
PerformerCalled == call.op = "performer"

\* C1: with mask (the causal flag) true a Performer call ends in an error and never
\* returns an attention output; an output is returned only with mask false.
C1_CausalFlagRaises ==
    PerformerCalled =>
        /\ cfg.mask => ret.kind = "error"
        /\ ret.kind = "ok" => cfg.mask = FALSE
        /\ ret.kind \in {"ok", "error"}

C1_Witness == PerformerCalled /\ cfg.mask /\ ret.kind = "error"

\* the feature-mapped queries and keys of the last call, in the layout of the inputs
\* [batch, length, heads, dim]
RefQ == shifted_relu_feature(call.x.queries, cfg.numerical_stabilizer)
RefK == shifted_relu_feature(call.x.keys, cfg.numerical_stabilizer)
\* the pairwise kernel score of query position l against key position lp
RefScore(b, h, l, lp) ==
    Sum([m \in 1..RefQ.shape[4] |-> RefQ.data[<<b, l, h, m>>] * RefK.data[<<b, lp, h, m>>]],
        RefQ.shape[4])
\* numerator and normalizer of the quadratic reference at (b, l, h, d)
RefNumerator(b, l, h, d) ==
    Sum([lp \in 1..RefK.shape[2] |-> RefScore(b, h, l, lp) * call.x.values.data[<<b, lp, h, d>>]],
        RefK.shape[2])
RefNormalizer(b, l, h) ==
    Sum([lp \in 1..RefK.shape[2] |-> RefScore(b, h, l, lp)], RefK.shape[2])

\* C2: the non-causal linear attention equals the quadratic reference: at every batch,
\* position l, head and value dimension d the numerator is the sum over l' of
\* (q[l] . k[l']) * v[l', d] and the normalizer is the sum over l' of q[l] . k[l'].
C2_LinearEqualsQuadratic ==
    (PerformerCalled /\ ret.kind = "ok") =>
        /\ ret.a_v.shape = call.x.queries.shape
        /\ \A i \in Idx4(call.x.queries.shape) :
              /\ ret.a_v.data[i].num = RefNumerator(i[1], i[2], i[3], i[4])
              /\ ret.a_v.data[i].den = RefNormalizer(i[1], i[2], i[3])

\* two key positions, two features, values that differ along the sequence, and a
\* numerator that is not zero
C2_Witness ==
    /\ PerformerCalled /\ ret.kind = "ok"
    /\ call.x.keys.shape[2] >= 2 /\ call.x.keys.shape[4] >= 2
    /\ call.x.values.data[<<1, 1, 1, 1>>] # call.x.values.data[<<1, 2, 1, 1>>]
    /\ call.x.values.data[<<1, 1, 1, 1>>] # call.x.values.data[<<1, 1, 1, 2>>]
    /\ ret.a_v.data[<<1, 1, 1, 1>>].num # 0

\* C8: with a stabilizer s > 0 every feature relu(x) + s of the queries and of the keys
\* is at least s, hence positive, and the normalizer of every position is positive.
C8_PositiveFeaturesAndNormalizer ==
    (PerformerCalled /\ cfg.numerical_stabilizer > 0) =>
        /\ \A i \in Idx4(RefQ.shape) : RefQ.data[i] >= cfg.numerical_stabilizer
        /\ \A i \in Idx4(RefK.shape) : RefK.data[i] >= cfg.numerical_stabilizer
        /\ ret.kind = "ok" => \A i \in Idx4(ret.a_v.shape) : ret.a_v.data[i].den > 0

\* every projected query and key entry is negative, so relu maps all of them to zero
C8_Witness ==
    /\ PerformerCalled /\ ret.kind = "ok" /\ cfg.numerical_stabilizer > 0
    /\ \A i \in Idx4(call.x.queries.shape) : call.x.queries.data[i] < 0
    /\ \A i \in Idx4(call.x.keys.shape) : call.x.keys.data[i] < 0
    /\ call.x.keys.shape[2] >= 2

(***************************************************************************)
(* Properties of the hybrid (SONIC) forward and of the basis samplers,     *)
(* checked under SpecSonic and SpecSonicRF.                                *)
(***************************************************************************)
SonicCalled == call.op = "sonic"
UtilsCalled == call.op = "utils"
RankOk == \A t \in {call.x.query, call.x.key, call.x.value} : Len(t) = 3
SupportedLen(n) == call.x.key[2] = n /\ call.x.value[2] = n
FirstRows(n) == [j \in 1..n |-> j - 1]
Distinct(seq) == \A i, j \in 1..Len(seq) : i # j => seq[i] # seq[j]

\* C3: a hybrid forward whose key/value length is not 128 or 512 ends in an error, with
\* no output and before any projection, sampling or attention; on length 128 the
\* [downsampling_k, 128] matrices are used and on 512 the [downsampling_k, 512] ones,
\* and key and value then have sequence length downsampling_k.
C3_UnsupportedLengthRaises ==
    (SonicCalled /\ RankOk) =>
        /\ ~(SupportedLen(128) \/ SupportedLen(512)) =>
              /\ ret.kind = "error"
              /\ ret.steps = <<>>
              /\ ret.msg = "Input sequence length must be of size 128 or 512."
        /\ \A n \in {128, 512} :
              SupportedLen(n) =>
                  /\ ret.steps # <<>> /\ ret.steps[1] = "downsample"
                  /\ ret.kind = "ok" =>
                        /\ ret.mat = n
                        /\ ret.key = <<call.x.key[1], cfg.downsampling_k, call.x.key[3]>>
                        /\ ret.value = <<call.x.value[1], cfg.downsampling_k, call.x.value[3]>>

C3_Witness ==
    /\ SonicCalled /\ RankOk
    /\ call.x.key = <<1, 256, 1>> /\ call.x.value = <<1, 256, 1>>
    /\ ret.kind = "error" /\ ret.steps = <<>>

\* a call on length 512 that returned an output
C3_Witness512 ==
    /\ SonicCalled /\ SupportedLen(512) /\ ret.kind = "ok" /\ ret.mat = 512

\* C4: in evaluation mode basis sampling returns exactly the first num_heads rows of the
\* bank, in order: in the non-causal hybrid forward called with train = false, and in
\* the per-layer sampler called with is_training = false.
C4_EvalSamplingDeterministic ==
    /\ (SonicCalled /\ ret.kind = "ok" /\ ret.branch = "rfa" /\ ~call.x.train) =>
          ret.indices = FirstRows(cfg.num_heads)
    /\ (UtilsCalled /\ ~call.is_training /\ ret.kind = "ok") =>
          ret.indices = FirstRows(call.num_heads)

\* the per-layer sampler alone does return the first num_heads rows in evaluation mode
C4_UtilsEvalFirstRows ==
    (UtilsCalled /\ ~call.is_training /\ call.num_heads <= Len(random_matrices)) =>
        ret.kind = "ok" /\ ret.indices = FirstRows(call.num_heads)

\* what a training-mode draw of count indices from a bank of n must return
GoodDraw(count, n) ==
    IF count <= n
    THEN /\ ret.kind = "ok"
         /\ Len(ret.indices) = count
         /\ Distinct(ret.indices)
         /\ \A j \in 1..Len(ret.indices) : ret.indices[j] \in 0..(n - 1)
    ELSE ret.kind = "error"

\* C5: a training-mode draw of count indices from a bank of N returns count pairwise
\* distinct indices in 0..N-1 when count <= N and fails when count > N.
C5_TrainingDrawDistinct ==
    /\ (SonicCalled /\ RankOk /\ (SupportedLen(128) \/ SupportedLen(512)) /\ ~cfg.mask) =>
          GoodDraw(cfg.num_heads, Len(random_matrices))
    /\ (UtilsCalled /\ call.is_training) =>
          GoodDraw(call.num_layers * call.num_heads, Len(random_matrices))

\* the draw of the hybrid forward alone does satisfy C5
C5_SonicDrawDistinct ==
    (SonicCalled /\ RankOk /\ (SupportedLen(128) \/ SupportedLen(512)) /\ ~cfg.mask) =>
        GoodDraw(cfg.num_heads, Len(random_matrices))

\* C6: in training mode the per-layer sampler draws num_layers * num_heads indices and
\* returns num_layers groups, group i the contiguous slice
\* [i * num_heads, (i + 1) * num_heads) of the draw.
C6_PerLayerGroups ==
    (UtilsCalled /\ call.is_training
        /\ call.num_layers * call.num_heads <= Len(random_matrices)) =>
        /\ ret.kind = "ok"
        /\ Len(ret.indices) = call.num_layers * call.num_heads
        /\ Len(ret.sampled) = call.num_layers
        /\ \A i \in 1..call.num_layers :
              ret.sampled[i] =
                  [j \in 1..call.num_heads |->
                      random_matrices[ret.indices[(i - 1) * call.num_heads + j] + 1]]

\* C9: forward calls share no mutable state: nothing that outlives a call (the bank, the
\* configuration, the random source of later calls) is changed by a call.
C9_NoSharedMutableState ==
    [][/\ random_matrices' = random_matrices
       /\ cfg' = cfg
       /\ np_random' = np_random]_vars

\* the bank and the configuration, at least, are left unchanged by every call
C9_BankUnchanged == [][random_matrices' = random_matrices /\ cfg' = cfg]_vars

\* C10: in the causal branch the score of query position q against downsampled key k is
\* kept iff k <= q and is otherwise -9e15; so key 0 is kept for every query, query 0
\* keeps only key 0, every query q >= downsampling_k - 1 keeps all keys, and no basis
\* is sampled.
C10_CausalMaskLowerTriangular ==
    (SonicCalled /\ ret.kind = "ok" /\ cfg.mask) =>
        /\ ret.branch = "causal"
        /\ DOMAIN ret.q_ks = 0..(call.x.query[2] - 1)
        /\ \A q \in DOMAIN ret.q_ks :
              /\ DOMAIN ret.q_ks[q] = 0..(cfg.downsampling_k - 1)
              /\ \A k \in DOMAIN ret.q_ks[q] :
                    /\ k <= q => ret.q_ks[q][k] = "q_ks"
                    /\ k > q => ret.q_ks[q][k] = NEG_FILL
              /\ ret.q_ks[q][0] # NEG_FILL
              /\ q = 0 => \A k \in DOMAIN ret.q_ks[q] : (ret.q_ks[q][k] # NEG_FILL) <=> k = 0
              /\ q >= cfg.downsampling_k - 1 =>
                    \A k \in DOMAIN ret.q_ks[q] : ret.q_ks[q][k] # NEG_FILL
        /\ \A j \in 1..Len(ret.steps) : ret.steps[j] # "sample"

\* a causal call with two queries and two downsampled keys: query 0 has a masked key
C10_Witness ==
    /\ SonicCalled /\ ret.kind = "ok" /\ cfg.mask
    /\ call.x.query[2] >= 2 /\ cfg.downsampling_k >= 2
    /\ ret.q_ks[0][1] = NEG_FILL /\ ret.q_ks[1][1] = "q_ks"

\* the inner product phi_q . z_state of the last call
RawQZ == einsum_bqnd_bnd_bqn(call.x.phi_q, call.x.phi_k)
RfaReturned == SonicCalled /\ ret.kind = "ok" /\ ret.branch = "rfa"
WLeq(x, y) == ~WLess(y, x)
Magnitude(x) == IF WLess(x, <<0, 0>>) THEN WNeg(x) ELSE x

\* C7: in the random-feature branch the denominator divided by lies in [eps, 1e10] with
\* eps = 1.0, for every batch, query position and head and every value of the inner
\* product, and equals |phi_q . z_state| whenever that lies in [eps, 1e10].
C7_DenominatorClamped ==
    RfaReturned =>
        /\ ret.qz.shape = <<call.x.query[1], call.x.query[2], cfg.num_heads>>
        /\ \A i \in Idx3(ret.qz.shape) :
              /\ WLeq(<<0, EPS>>, ret.qz.data[i])
              /\ WLeq(ret.qz.data[i], <<10000, 0>>)
              /\ (WLeq(<<0, EPS>>, Magnitude(RawQZ.data[i]))
                    /\ WLeq(Magnitude(RawQZ.data[i]), <<10000, 0>>)) =>
                    ret.qz.data[i] = Magnitude(RawQZ.data[i])

\* one call whose inner products are negative within range, zero, and beyond 1e10
C7_Witness ==
    /\ RfaReturned
    /\ \E i \in Idx3(ret.qz.shape) :
          /\ WLess(RawQZ.data[i], <<0, 0>>)
          /\ WLeq(Magnitude(RawQZ.data[i]), <<10000, 0>>)
          /\ ret.qz.data[i] = Magnitude(RawQZ.data[i])
    /\ \E i \in Idx3(ret.qz.shape) : RawQZ.data[i] = <<0, 0>> /\ ret.qz.data[i] = <<0, EPS>>
    /\ \E i \in Idx3(ret.qz.shape) :
          /\ WLess(<<10000, 0>>, Magnitude(RawQZ.data[i]))
          /\ ret.qz.data[i] = <<10000, 0>>

====
